---- MODULE Spec2Model ----
(***************************************************************************)
(* Model of src/server.js: the socket.io task-chat gateway (joinTask,      *)
(* sendMessage), the Task collection it writes to, and the HTTP task       *)
(* routes that write to the same collection.                               *)
(*                                                                         *)
(* Library semantics the handlers rely on are modelled as the libraries    *)
(* implement them:                                                         *)
(*  - socket.io: socket.join adds the socket to a room; io.to(r).emit      *)
(*    delivers to the sockets in room r; a disconnecting socket leaves     *)
(*    every room.                                                          *)
(*  - mongoose: findById returns null for an unknown id; pushing onto a    *)
(*    document array registers an atomic $push, so save() sends only the   *)
(*    pushed elements and the store appends them to the stored array;      *)
(*    save() of a document that no longer exists rejects.                  *)
(*  - node: an exception inside an async handler is an unhandled           *)
(*    rejection; depending on the runtime it terminates the process or     *)
(*    is only logged.                                                      *)
(***************************************************************************)
EXTENDS Integers, Sequences, FiniteSets, TLC

\* ---------------------------------------------------------------- bounds
MaxConns == 2      \* socket connections ever opened
MaxSends == 2      \* sendMessage events ever received
MaxTasks == 2      \* task identifiers clients may name
MaxClock == 1      \* largest value of the server clock

Conns    == 1..MaxConns
Handlers == 1..MaxSends
TaskIds  == 1..MaxTasks
Times    == 0..MaxClock

\* ---------------------------------------------------------------- values
Messages   == {"hi"}
NoEmoji    == "none"
Emojis     == {NoEmoji}
Unauth     == "Unauth"

NoToken    == [kind |-> "none",      sub |-> "", sig |-> "",    expired |-> FALSE]
Malformed  == [kind |-> "malformed", sub |-> "", sig |-> "",    expired |-> FALSE]
Jwt(u, s, e) == [kind |-> "jwt", sub |-> u, sig |-> s, expired |-> e]
Tokens     == {NoToken, Malformed,
               Jwt("A", "ok", FALSE), Jwt("A", "bad", FALSE), Jwt("A", "ok", TRUE)}

\* what a client may present when it opens a socket: a bearer token and
\* the userId query parameter
Handshakes ==
  {[token |-> Jwt("A", "ok", FALSE), userId |-> "A"],
   [token |-> Jwt("A", "ok", FALSE), userId |-> "B"],
   [token |-> NoToken, userId |-> "B"]}

\* jwt.verify(token, JWT_SECRET): the decoded identity, or a throw
validateToken(tok) ==
  IF tok.kind = "jwt" /\ tok.sig = "ok" /\ ~tok.expired THEN tok.sub ELSE Unauth

\* authMiddleware: 401 when the header is missing or jwt.verify throws
authMiddleware(tok) ==
  IF tok.kind = "none" THEN Unauth ELSE validateToken(tok)

NoConn  == [state |-> "none", token |-> NoToken, userId |-> ""]
NoMsg   == [userId |-> "", message |-> "", emoji |-> "", timestamp |-> 0]
IdleHandler == [pc |-> "idle", conn |-> 0, taskId |-> 0, message |-> "",
                emoji |-> "", joined |-> FALSE, newMsg |-> NoMsg, task |-> <<>>]

\* the payload of newMessage is the plain newMsg object; the stored
\* subdocument carries in addition the _id mongoose gives it
Payload(entry) == [userId |-> entry.userId, message |-> entry.message,
                   emoji |-> entry.emoji, timestamp |-> entry.timestamp]
Subdoc(oid, msg) == [oid |-> oid, userId |-> msg.userId, message |-> msg.message,
                     emoji |-> msg.emoji, timestamp |-> msg.timestamp]

IsPrefix(s, t) == Len(s) <= Len(t) /\ SubSeq(t, 1, Len(s)) = s

VARIABLES
  conn,        \* connection -> handshake and state (none / open / closed)
  rooms,       \* room (task id) -> set of connections joined
  handlers,    \* sendMessage invocation -> its position and locals
  tasks,       \* Task collection: existing id -> [status, chat]
  inbox,       \* connection -> newMessage payloads delivered to it
  now,         \* server clock
  crashed,     \* the node process has terminated
  res,         \* status of the last HTTP response
  persisted,   \* history: successful saves, in completion order
  emitted      \* history: newMessage broadcasts, in order

vars == <<conn, rooms, handlers, tasks, inbox, now, crashed, res,
          persisted, emitted>>

NewTask == [status |-> "pending", chat |-> <<>>]

Init ==
  /\ conn = [c \in Conns |-> NoConn]
  /\ rooms = [t \in TaskIds |-> {}]
  /\ handlers = [h \in Handlers |-> IdleHandler]
  /\ \E S \in {TaskIds, TaskIds \ {MaxTasks}} : tasks = [t \in S |-> NewTask]
  /\ inbox = [c \in Conns |-> <<>>]
  /\ now = 0
  /\ crashed = FALSE
  /\ res = 0
  /\ persisted = <<>>
  /\ emitted = <<>>

\* ------------------------------------------------------- socket.io rooms
\* socket.join(taskId)
Join(r, t, c) == [r EXCEPT ![t] = @ \cup {c}]

\* a closing socket leaves every room it is in.  Leaving only the room
\* joined last (here: the highest-numbered one) would be this:
LeaveLast(r, c) ==
  LET mine == {t \in TaskIds : c \in r[t]} IN
  [t \in TaskIds |-> IF t \in mine /\ \A u \in mine : u <= t THEN r[t] \ {c} ELSE r[t]]
LeaveAll(r, c) == [t \in TaskIds |-> r[t] \ {c}]

\* io.to(taskId).emit('newMessage', msg): every socket in the room gets it.
\* io.emit, which reaches every connected socket, would be this:
BroadcastAll(inb, members, msg) ==
  [c \in Conns |-> IF conn[c].state = "open" THEN Append(inb[c], msg) ELSE inb[c]]
Broadcast(inb, members, msg) ==
  [c \in Conns |-> IF c \in members THEN Append(inb[c], msg) ELSE inb[c]]

\* ------------------------------------------------------------ connection
\* io.on('connection'): the socket is accepted as it comes; the handshake
\* (token, query.userId) is kept on the socket and nothing reads the token
Connect(c) ==
  /\ ~crashed
  /\ conn[c].state = "none"
  /\ \A d \in Conns : d < c => conn[d].state # "none"
  /\ \E hs \in Handshakes :
       conn' = [conn EXCEPT ![c] = [state |-> "open", token |-> hs.token,
                                    userId |-> hs.userId]]
  /\ UNCHANGED <<rooms, handlers, tasks, inbox, now, crashed, res,
                 persisted, emitted>>

\* socket.on('joinTask', taskId)
JoinTask(c, t) ==
  /\ ~crashed
  /\ conn[c].state = "open"
  /\ rooms' = Join(rooms, t, c)
  /\ UNCHANGED <<conn, handlers, tasks, inbox, now, crashed, res,
                 persisted, emitted>>

\* the client goes away or the transport closes
Disconnect(c) ==
  /\ ~crashed
  /\ conn[c].state = "open"
  /\ conn' = [conn EXCEPT ![c].state = "closed"]
  /\ rooms' = LeaveAll(rooms, c)
  /\ UNCHANGED <<handlers, tasks, inbox, now, crashed, res,
                 persisted, emitted>>

\* ----------------------------------------------------------- sendMessage
InFlight == {"finding", "saving", "saved"}
Failed   == {"no_payload", "find_failed", "save_failed"}

\* a handler that has returned, thrown or been cut off holds nothing
Returned(how) == [IdleHandler EXCEPT !.pc = how]

\* The async handler throws: its promise rejects and nothing handles it.
\* The runtime either terminates the process (every socket is gone, the
\* room map with it, handlers in flight never resume) or only logs it.
Reject(h, why, crash) ==
  IF crash
  THEN /\ crashed' = TRUE
       /\ handlers' = [g \in Handlers |->
            IF g = h THEN Returned(why)
            ELSE IF handlers[g].pc \in InFlight
                 THEN Returned("aborted")
                 ELSE handlers[g]]
       /\ conn' = [c \in Conns |->
            IF conn[c].state = "open" THEN [conn[c] EXCEPT !.state = "closed"]
            ELSE conn[c]]
       /\ rooms' = [t \in TaskIds |-> {}]
  ELSE /\ handlers' = [handlers EXCEPT ![h] = Returned(why)]
       /\ UNCHANGED <<crashed, conn, rooms>>

\* socket.on('sendMessage', async ({ taskId, message, emoji }) => ...) up to
\* the first await: destructuring the payload, then Task.findById(taskId)
SendMessage(c, h) ==
  /\ ~crashed
  /\ conn[c].state = "open"
  /\ handlers[h].pc = "idle"
  /\ \A g \in Handlers : g < h => handlers[g].pc # "idle"
  /\ \/ \E t \in TaskIds, m \in Messages, e \in Emojis :
          /\ handlers' = [handlers EXCEPT ![h] =
               [IdleHandler EXCEPT !.pc = "finding", !.conn = c, !.taskId = t,
                                   !.message = m, !.emoji = e,
                                   !.joined = (c \in rooms[t])]]
          /\ UNCHANGED <<crashed, conn, rooms>>
     \/ \* no payload object: the destructuring throws
        \E crash \in BOOLEAN :
          Reject(h, "no_payload", crash)
  /\ UNCHANGED <<tasks, inbox, now, res, persisted, emitted>>

\* findById resolves; newMsg is built, pushed onto the loaded document and
\* save() is called, all before the next await
FindReturn(h) ==
  /\ ~crashed
  /\ handlers[h].pc = "finding"
  /\ LET hd == handlers[h] IN
     \/ /\ hd.taskId \in DOMAIN tasks
        /\ \E t \in {now, now + 1} \cap Times :
             /\ now' = t
             /\ LET newMsg == [userId |-> conn[hd.conn].userId,
                               message |-> hd.message, emoji |-> hd.emoji,
                               timestamp |-> t]
                IN handlers' = [handlers EXCEPT ![h] =
                     [hd EXCEPT !.pc = "saving", !.newMsg = newMsg,
                                !.task = Append(tasks[hd.taskId].chat,
                                                Subdoc(h, newMsg))]]
        /\ UNCHANGED <<crashed, conn, rooms>>
     \/ \* task is null (unknown id) or the query failed: task.chat throws
        /\ \E crash \in BOOLEAN : Reject(h, "find_failed", crash)
        /\ UNCHANGED now
  /\ UNCHANGED <<tasks, inbox, res, persisted, emitted>>

\* A mongoose array push is sent as a $push of the pushed element: the
\* store appends it to the array it holds, whatever the handler had loaded.
\* A save that wrote the loaded array back would be this:
SavedWholeArray(stored, loaded, entry) == loaded
Saved(stored, loaded, entry) == Append(stored, entry)

\* await task.save() rejects: the handler throws there and never reaches
\* the emit.  A handler that caught the error and went on would be this:
SwallowSaveError(h, crash) ==
  /\ handlers' = [handlers EXCEPT ![h] = [@ EXCEPT !.pc = "saved", !.task = <<>>]]
  /\ UNCHANGED <<crashed, conn, rooms>>
OnSaveError(h, crash) == Reject(h, "save_failed", crash)

\* save() completes: the store appends the pushed element to the stored
\* chat array, or the save rejects (storage failure, document gone)
SaveReturn(h) ==
  /\ ~crashed
  /\ handlers[h].pc = "saving"
  /\ LET hd == handlers[h]
         entry == Subdoc(h, hd.newMsg) IN
     \/ /\ hd.taskId \in DOMAIN tasks
        /\ tasks' = [tasks EXCEPT ![hd.taskId].chat = Saved(@, hd.task, entry)]
        /\ persisted' = Append(persisted,
             [taskId |-> hd.taskId, entry |-> entry])
        /\ handlers' = [handlers EXCEPT ![h] = [hd EXCEPT !.pc = "saved", !.task = <<>>]]
        /\ UNCHANGED <<crashed, conn, rooms>>
     \/ /\ \E crash \in BOOLEAN : OnSaveError(h, crash)
        /\ UNCHANGED <<tasks, persisted>>
  /\ UNCHANGED <<inbox, now, res, emitted>>

\* io.to(taskId).emit('newMessage', newMsg)
Emit(h) ==
  /\ ~crashed
  /\ handlers[h].pc = "saved"
  /\ LET hd == handlers[h] IN
     /\ inbox' = Broadcast(inbox, rooms[hd.taskId], hd.newMsg)
     /\ emitted' = Append(emitted, [h |-> h, taskId |-> hd.taskId, msg |-> hd.newMsg])
  /\ handlers' = [handlers EXCEPT ![h] = Returned("done")]
  /\ UNCHANGED <<conn, rooms, tasks, now, crashed, res, persisted>>

GatewayNext ==
  \/ \E c \in Conns : Connect(c)
  \/ \E c \in Conns, t \in TaskIds : JoinTask(c, t)
  \/ \E c \in Conns : Disconnect(c)
  \/ \E c \in Conns, h \in Handlers : SendMessage(c, h)
  \/ \E h \in Handlers : FindReturn(h)
  \/ \E h \in Handlers : SaveReturn(h)
  \/ \E h \in Handlers : Emit(h)

SpecGateway == Init /\ [][GatewayNext]_vars

\* ------------------------------------------------------ HTTP task routes
\* what a client may send as the body of PUT /api/tasks/:id: any fields of
\* the task, the chat array among them
PutBodies ==
  {[fields |-> {"status"}, status |-> "completed", chat |-> <<>>],
   [fields |-> {"chat"},   status |-> "",          chat |-> <<>>]}

\* Task.findByIdAndUpdate(id, body): $set of every field the body names
Update(doc, body) ==
  [status |-> IF "status" \in body.fields THEN body.status ELSE doc.status,
   chat   |-> IF "chat" \in body.fields THEN body.chat ELSE doc.chat]

\* app.post('/api/tasks', authMiddleware, ...): a new task document
PostTask(tok, id) ==
  /\ ~crashed
  /\ id \notin DOMAIN tasks
  /\ IF authMiddleware(tok) = Unauth
     THEN res' = 401 /\ UNCHANGED tasks
     ELSE /\ tasks' = [t \in DOMAIN tasks \cup {id} |->
                        IF t = id THEN NewTask ELSE tasks[t]]
          /\ res' = 200
  /\ UNCHANGED <<conn, rooms, handlers, inbox, now, crashed, persisted, emitted>>

\* app.put('/api/tasks/:id', authMiddleware, ...)
PutTask(tok, id, body) ==
  /\ ~crashed
  /\ IF authMiddleware(tok) = Unauth
     THEN res' = 401 /\ UNCHANGED tasks
     ELSE /\ tasks' = IF id \in DOMAIN tasks
                      THEN [tasks EXCEPT ![id] = Update(@, body)]
                      ELSE tasks
          /\ res' = 200
  /\ UNCHANGED <<conn, rooms, handlers, inbox, now, crashed, persisted, emitted>>

\* app.delete('/api/tasks/:id', authMiddleware, ...)
DeleteTask(tok, id) ==
  /\ ~crashed
  /\ IF authMiddleware(tok) = Unauth
     THEN res' = 401 /\ UNCHANGED tasks
     ELSE /\ tasks' = [t \in DOMAIN tasks \ {id} |-> tasks[t]]
          /\ res' = 200
  /\ UNCHANGED <<conn, rooms, handlers, inbox, now, crashed, persisted, emitted>>

\* everything that writes to the Task collection: the sendMessage handlers
\* of connected sockets and the HTTP task routes
StoreNext ==
  \/ \E c \in Conns : Connect(c)
  \/ \E c \in Conns, h \in Handlers : SendMessage(c, h)
  \/ \E h \in Handlers : FindReturn(h)
  \/ \E h \in Handlers : SaveReturn(h)
  \/ \E h \in Handlers : Emit(h)
  \/ \E tok \in Tokens, id \in TaskIds : PostTask(tok, id)
  \/ \E tok \in Tokens, id \in TaskIds, body \in PutBodies : PutTask(tok, id, body)
  \/ \E tok \in Tokens, id \in TaskIds : DeleteTask(tok, id)

SpecStore == Init /\ [][StoreNext]_vars

\* ================================================================ claims
Chat(t) == tasks[t].chat

\* the successful saves on task t, in the order they completed
Appended(t) ==
  LET mine == SelectSeq(persisted, LAMBDA r : r.taskId = t)
  IN [i \in 1..Len(mine) |-> mine[i].entry]

\* C1: a sendMessage for task T from a connection that had not joined T
\* when it sent is never appended to T's chat log.
C1_UnjoinedSendNeverPersisted ==
  \A h \in Handlers : handlers[h].pc = "saved" => handlers[h].joined

\* C2: a connection whose handshake token does not validate has no event
\* processed: it is in no room and no sendMessage handler runs for it.
C2_InvalidTokenNothingProcessed ==
  \A c \in Conns :
    (conn[c].state # "none" /\ validateToken(conn[c].token) = Unauth)
      => /\ \A t \in TaskIds : c \notin rooms[t]
         /\ \A h \in Handlers : handlers[h].conn # c

\* C3: the userId of a message that is persisted and broadcast is the
\* identity in the sender's validated token, whatever userId the client
\* put in the handshake query.
C3_SenderIsTokenIdentity ==
  \A h \in Handlers :
    (/\ handlers[h].pc = "saved"
     /\ validateToken(conn[handlers[h].conn].token) # Unauth)
      => handlers[h].newMsg.userId = validateToken(conn[handlers[h].conn].token)

C6_DisconnectLeavesAllRooms ==
  [][\A c \in Conns :
       conn'[c].state = "closed"
         => /\ \A t \in TaskIds : c \notin rooms'[t]
            /\ conn[c].state = "closed" => inbox'[c] = inbox[c]]_vars

\* a connection that had received broadcasts of two rooms, so had joined
\* both, has disconnected
C6_Witness ==
  /\ ~crashed
  /\ Len(emitted) = 2
  /\ emitted[1].taskId # emitted[2].taskId
  /\ \E c \in Conns : conn[c].state = "closed" /\ Len(inbox[c]) = 2

\* C7: the newMessage of a sendMessage on task T is delivered to exactly
\* the connections that are in room T when it is emitted.
C7_BroadcastExactlyToMembers ==
  [][\A h \in Handlers :
       (handlers[h].pc = "saved" /\ handlers'[h].pc = "done")
         => \A c \in Conns :
              IF c \in rooms[handlers[h].taskId]
              THEN /\ Len(inbox'[c]) = Len(inbox[c]) + 1
                   /\ SubSeq(inbox'[c], 1, Len(inbox[c])) = inbox[c]
                   /\ inbox'[c][Len(inbox'[c])] = handlers[h].newMsg
              ELSE inbox'[c] = inbox[c]]_vars

\* one message was broadcast: a connection in the room has it, another
\* open connection, in no room, does not
C7_Witness ==
  /\ Len(emitted) = 1
  /\ \E c, d \in Conns :
       /\ c \in rooms[emitted[1].taskId]
       /\ inbox[c] = <<emitted[1].msg>>
       /\ conn[d].state = "open"
       /\ \A t \in TaskIds : d \notin rooms[t]
       /\ inbox[d] = <<>>

\* C8: in every step the chat log of a task that exists before and after
\* the step only grows at its end.
C8_ChatLogAppendOnly ==
  [][\A t \in DOMAIN tasks \cap DOMAIN tasks' :
       IsPrefix(tasks[t].chat, tasks'[t].chat)]_vars

\* C9: no failing event stops the gateway process.
C9_FailingEventNeverCrashes == ~crashed

\* C10: the entries of every chat log are in non-decreasing order of
\* timestamp.
C10_ChatTimestampsNonDecreasing ==
  \A t \in DOMAIN tasks :
    \A i, j \in DOMAIN Chat(t) :
      i < j => Chat(t)[i].timestamp <= Chat(t)[j].timestamp

====
